---- MODULE Spec2Model ----
(***************************************************************************)
(* Notator (src/main.py): the live document behaviour of the writing       *)
(* surface.  The model covers the editor tabs (NoteTab), the Hemingway key  *)
(* gate, the "invisible ink" idle/fade machine of NotatorMainWindow and     *)
(* the countdown TimerWidget with its menu.                                 *)
(*                                                                          *)
(* Conventions                                                              *)
(*  - a buffer text is a sequence of one-character strings; Qt document     *)
(*    positions are 0-based, sequence indices 1-based (position p is        *)
(*    element p+1);                                                         *)
(*  - an editor cursor is a position without selection;                     *)
(*  - every event handler runs to completion (single Qt event loop), so     *)
(*    one action is one delivered event or one timer timeout;               *)
(*  - Python None for _fade_letter_index is NoneIdx.                        *)
(***************************************************************************)
EXTENDS Integers, Sequences, FiniteSets, TLC

\* ---------------------------------------------------------------- bounds
MaxLen == 2
MaxTabs == 2
MaxInput == 2

\* ------------------------------------------------------ program constants
invisible_delay == 5

\* _fade_alpha starts at 1.0 and loses 0.1 per fade tick in IEEE-754 double
\* arithmetic: 0.9, 0.8, 0.7000000000000001, ..., 0.10000000000000014,
\* 1.3877787807814457e-16 (10th subtraction, still > 0),
\* -0.09999999999999987 (11th subtraction).  fade_alpha in the model is the
\* number of subtractions applied since the value was last 1.0, and
\* AlphaZeroAt is the first count at which "self._fade_alpha <= 0" is true.
AlphaZeroAt == 11

NoneIdx == -1

Chars == {"a", " "}

VARIABLES
    tabs,               \* QTabWidget pages: <<[text, cursor, hemingway, dim, blind]>>
    current,            \* tabs.currentIndex() + 1
    hemingway,          \* NotatorMainWindow.hemingway
    invisible_enabled,  \* NotatorMainWindow.invisible_enabled
    fading,             \* _fading
    fade_word_start,    \* _fade_word_start
    fade_letter_index,  \* _fade_letter_index (NoneIdx for None)
    fade_alpha,         \* _fade_alpha, as the number of 0.1 steps below 1.0
    invisible_idle,     \* single-shot idle QTimer: 0 inactive, else seconds left
    fade_timer,         \* fade QTimer active
    running,            \* TimerWidget._running
    duration,           \* TimerWidget._duration
    remaining,          \* TimerWidget._remaining
    timer_active,       \* TimerWidget._timer active
    blinking,           \* TimerWidget._blinking
    blink_anim,         \* TimerWidget._blink_anim: "none", "running", "stopped"
    text_opacity,       \* TimerWidget._text_opacity in tenths (10 = 1.0)
    current_duration,   \* NotatorMainWindow.current_duration
    last_reset,         \* seconds since NotatorMainWindow.last_reset, 2 = two or more
    ev,                 \* history: the event handled by the last step
    fade_pre,           \* history: text of the faded buffer when the fade started
    fade_tab,           \* history: tab in which the running/last fade started
    fade_erased,        \* history: characters removed by _fade_word in this fade
    t_ticks,            \* history: timer ticks handled since the last start
    t_expired,          \* history: timeout signals emitted since the last start
    t_pure,             \* history: no reset since the last start
    self_destruct_seconds, \* NotatorMainWindow.self_destruct_seconds
    self_destruct_timer,   \* self_destruct_timer active
    hl_text,            \* one document line (block) given to the highlighter
    hl_fmt,             \* the format highlightBlock left on each of its characters
    blind_typing,       \* NotatorMainWindow.blind_typing
    blind_visible       \* NotatorMainWindow.blind_visible

editVars  == <<tabs, current, hemingway>>
decayVars == <<invisible_enabled, fading, fade_word_start, fade_letter_index,
               fade_alpha, invisible_idle, fade_timer>>
timerVars == <<running, duration, remaining, timer_active, blinking,
               blink_anim, text_opacity, current_duration, last_reset>>
fadeHist  == <<fade_pre, fade_tab, fade_erased>>
timerHist == <<t_ticks, t_expired, t_pure>>
destructVars == <<self_destruct_seconds, self_destruct_timer>>
formatVars == <<hl_text, hl_fmt>>
blindVars == <<blind_typing, blind_visible>>
restVars  == <<destructVars, formatVars, blindVars>>
vars == <<tabs, current, hemingway, invisible_enabled, fading,
          fade_word_start, fade_letter_index, fade_alpha, invisible_idle,
          fade_timer, running, duration, remaining, timer_active, blinking,
          blink_anim, text_opacity, current_duration, last_reset, ev,
          fade_pre, fade_tab, fade_erased, t_ticks, t_expired, t_pure,
          self_destruct_seconds, self_destruct_timer, hl_text, hl_fmt,
          blind_typing, blind_visible>>

\* ------------------------------------------------------- sequence helpers
RemoveAt(s, i) == SubSeq(s, 1, i - 1) \o SubSeq(s, i + 1, Len(s))

InsertAt(s, i, x) == SubSeq(s, 1, i - 1) \o <<x>> \o SubSeq(s, i, Len(s))

IsPrefix(s, t) == Len(s) <= Len(t) /\ SubSeq(t, 1, Len(s)) = s

\* the whitespace characters of the buffers: the space and the line break
IsWhite(c) == c \in {" ", "\n"}

\* str.rstrip(): drop trailing whitespace
RECURSIVE RStrip(_)
RStrip(s) ==
    IF s # <<>> /\ IsWhite(s[Len(s)])
    THEN RStrip(SubSeq(s, 1, Len(s) - 1)) ELSE s

\* str.rfind(" "): 0-based index of the last space, -1 if there is none
RECURSIVE RFindSpace(_)
RFindSpace(s) ==
    IF s = <<>> THEN -1
    ELSE IF s[Len(s)] = " " THEN Len(s) - 1
    ELSE RFindSpace(SubSeq(s, 1, Len(s) - 1))

\* variant of the word boundary: the first space instead of the last
WordStartOfFirstSpace(text) ==
    IF RFindSpace(text) # -1
    THEN CHOOSE i \in 1..Len(text) :
             text[i] = " " /\ \A j \in 1..(i - 1) : text[j] # " "
    ELSE 0

\* "last_space + 1 if last_space != -1 else 0"
WordStartOf(text) ==
    IF RFindSpace(text) # -1 THEN RFindSpace(text) + 1 ELSE 0

\* ------------------------------------------------------------- NoteTab
\* NoteTab.__init__: an empty editor; the Hemingway flag starts False
NoteTabInit ==
    [text |-> <<>>, cursor |-> 0, hemingway |-> FALSE, dim |-> <<>>,
     blind |-> FALSE]

\* the keys QTextEdit edits a buffer with; CursorHome is the Home key
\* (start of line)
KeyClasses == {"Insert", "DeleteBackward", "DeleteForward",
               "CursorLeft", "CursorUp", "CursorRight", "CursorDown",
               "CursorHome"}

\* the "blocked" list of NoteTab.keyPressEvent
Blocked == {"DeleteBackward", "DeleteForward", "CursorLeft", "CursorUp"}

\* foreground of the character format a typed character inherits: the
\* format of the character before the cursor (of the first character at the
\* start of a non-empty block); dim[i] is TRUE when the foreground alpha of
\* character i is below 1.0
InheritDim(e) ==
    IF e.text = <<>> THEN FALSE
    ELSE IF e.cursor = 0 THEN e.dim[1] ELSE e.dim[e.cursor]

\* QTextEdit.keyPressEvent (super().keyPressEvent): the edit of one key on a
\* one-line buffer
SuperKeyPress(e, cls, ch) ==
    CASE cls = "Insert" ->
           [e EXCEPT !.text = InsertAt(e.text, e.cursor + 1, ch),
                     !.dim = InsertAt(e.dim, e.cursor + 1, InheritDim(e)),
                     !.cursor = e.cursor + 1]
      [] cls = "DeleteBackward" ->
           IF e.cursor > 0
           THEN [e EXCEPT !.text = RemoveAt(e.text, e.cursor),
                          !.dim = RemoveAt(e.dim, e.cursor),
                          !.cursor = e.cursor - 1]
           ELSE e
      [] cls = "DeleteForward" ->
           IF e.cursor < Len(e.text)
           THEN [e EXCEPT !.text = RemoveAt(e.text, e.cursor + 1),
                          !.dim = RemoveAt(e.dim, e.cursor + 1)]
           ELSE e
      [] cls = "CursorLeft" ->
           IF e.cursor > 0 THEN [e EXCEPT !.cursor = e.cursor - 1] ELSE e
      [] cls = "CursorRight" ->
           IF e.cursor < Len(e.text) THEN [e EXCEPT !.cursor = e.cursor + 1] ELSE e
      [] cls = "CursorHome" -> [e EXCEPT !.cursor = 0]
      [] OTHER -> e

\* variant of the decision: the Delete key is missing from the blocked list
AllowDelete(e, cls) == ~(e.hemingway /\ cls \in Blocked \ {"DeleteForward"})

\* the decision of NoteTab.keyPressEvent: TRUE when the key is passed on
Allow(e, cls) == ~(e.hemingway /\ cls \in Blocked)

\* ----------------------------------------------------- decay: _user_typed
\* the part of the window a user-input handler can reach: the editors and
\* the decay timers
Win == [tabs |-> tabs, fading |-> fading, idle |-> invisible_idle,
        ftimer |-> fade_timer]

\* variant of _user_typed: the interruption completes the removal of the
\* character the fade is working on
UserTypedFinish(w) ==
    LET w1 == IF invisible_enabled /\ ~w.fading
              THEN [w EXCEPT !.idle = invisible_delay] ELSE w
        pos == fade_word_start + fade_letter_index
        e == w1.tabs[current]
        hit == fade_letter_index # NoneIdx /\ fade_alpha > 0 /\ pos < Len(e.text)
    IN  IF w1.fading
        THEN [w1 EXCEPT !.ftimer = FALSE, !.fading = FALSE,
                        !.tabs[current] =
                            IF hit
                            THEN [e EXCEPT !.text = RemoveAt(e.text, pos + 1),
                                           !.dim = RemoveAt(e.dim, pos + 1),
                                           !.cursor = IF e.cursor > pos
                                                      THEN e.cursor - 1
                                                      ELSE e.cursor]
                            ELSE e]
        ELSE w1

\* variant of _user_typed: a countdown that is already running is left alone
UserTypedNoRearm(w) ==
    LET w1 == IF invisible_enabled /\ ~w.fading /\ w.idle = 0
              THEN [w EXCEPT !.idle = invisible_delay] ELSE w
    IN  IF w1.fading THEN [w1 EXCEPT !.ftimer = FALSE, !.fading = FALSE] ELSE w1

\* NotatorMainWindow._user_typed (the think timer is not modelled)
UserTyped(w) ==
    LET w1 == IF invisible_enabled /\ ~w.fading
              THEN [w EXCEPT !.idle = invisible_delay] ELSE w
    IN  IF w1.fading THEN [w1 EXCEPT !.ftimer = FALSE, !.fading = FALSE] ELSE w1

SetWin(w) ==
    /\ tabs' = w.tabs
    /\ fading' = w.fading
    /\ invisible_idle' = w.idle
    /\ fade_timer' = w.ftimer

\* variant of the filter's call of _user_typed: _fading is cleared but the
\* fade timer is left running
EventFilterKeepsTimer(w) == [UserTyped(w) EXCEPT !.ftimer = w.ftimer]

\* eventFilter: a KeyPress, MouseButtonPress or TouchBegin seen by the
\* application-wide filter counts as user activity
EventFilter(w) == UserTyped(w)

\* variant of keyPressEvent: the typed signal is not emitted
KeyPressEventSilent(w, cls, ch) ==
    IF ~Allow(w.tabs[current], cls)
    THEN w
    ELSE [w EXCEPT !.tabs[current] = SuperKeyPress(@, cls, ch)]

\* NoteTab.keyPressEvent of the focused editor: a blocked key returns at
\* once, any other key is edited by QTextEdit and then announced through the
\* typed signal (-> _user_typed)
KeyPressEvent(w, cls, ch) ==
    IF ~Allow(w.tabs[current], cls)
    THEN w
    ELSE UserTyped([w EXCEPT !.tabs[current] = SuperKeyPress(@, cls, ch)])

\* characters held by all open buffers together
RECURSIVE TotalLen(_)
TotalLen(ts) == IF ts = <<>> THEN 0 ELSE Len(Head(ts).text) + TotalLen(Tail(ts))

\* history of the last step: the kind of event and whether it interrupted a
\* running fade ("first": before any character was removed, "later": after)
Ev(kind, cut) == [kind |-> kind, cut |-> cut, arg |-> 0, was |-> "", cls |-> ""]

\* history of a key step: the class of the key as well
EvK(kind, cut, cls) == [kind |-> kind, cut |-> cut, arg |-> 0, was |-> "", cls |-> cls]

\* history of a timer step: the seconds handed to TimerWidget.start (0 if
\* start was not called) and the phase the timer was in before the step
EvT(kind, arg, was) ==
    [kind |-> kind, cut |-> "none", arg |-> arg, was |-> was, cls |-> ""]

Cut(after) ==
    IF fading /\ ~after THEN (IF fade_erased = 0 THEN "first" ELSE "later")
    ELSE "none"

\* the history of a fade is kept while the fade runs and after it has run to
\* its end, until the next user event
FadeHistKeep ==
    /\ fade_pre' = IF fading' THEN fade_pre ELSE <<>>
    /\ fade_tab' = IF fading' THEN fade_tab ELSE 0
    /\ fade_erased' = IF fading' THEN fade_erased ELSE 0

\* one key press delivered to the focused editor
KeyPress(cls, ch) ==
    /\ cls = "Insert" => TotalLen(tabs) < MaxLen
    /\ LET w == KeyPressEvent(EventFilter(Win), cls, ch)
       IN  /\ SetWin(w)
           /\ ev' = EvK(IF Allow(tabs[current], cls) THEN "allowed" ELSE "blocked",
                      Cut(w.fading), cls)
    /\ FadeHistKeep
    /\ UNCHANGED <<current, hemingway, invisible_enabled, fade_word_start,
                   fade_letter_index, fade_alpha>>
    /\ UNCHANGED <<timerVars, timerHist>>
    /\ UNCHANGED restVars

\* a mouse press inside the focused editor: seen once by the event filter,
\* then QTextEdit places the cursor at the clicked position c
MousePressEditor(c) ==
    /\ c \in 0..Len(tabs[current].text)
    /\ LET w == EventFilter(Win)
       IN  /\ SetWin([w EXCEPT !.tabs[current].cursor = c])
           /\ ev' = Ev("mouse", Cut(w.fading))
    /\ FadeHistKeep
    /\ UNCHANGED <<current, hemingway, invisible_enabled, fade_word_start,
                   fade_letter_index, fade_alpha>>
    /\ UNCHANGED <<timerVars, timerHist>>
    /\ UNCHANGED restVars

\* a mouse press on a widget that ignores it (a label, the window): the
\* event travels on to the parent and passes the filter once per receiver
MousePressOther ==
    /\ LET w == EventFilter(EventFilter(Win))
       IN  /\ SetWin(w)
           /\ ev' = Ev("mouse", Cut(w.fading))
    /\ FadeHistKeep
    /\ UNCHANGED <<current, hemingway, invisible_enabled, fade_word_start,
                   fade_letter_index, fade_alpha>>
    /\ UNCHANGED <<timerVars, timerHist>>
    /\ UNCHANGED restVars

\* ------------------------------------------------ decay: _start_fade
\* variant of _start_fade: the text is not trimmed before the emptiness test
StartFadeNoTrim(e) ==
    LET text == e.text
        ws == WordStartOf(text)
    IN  IF ~invisible_enabled \/ text = <<>>
        THEN [start |-> FALSE, ws |-> fade_word_start, li |-> fade_letter_index,
              alpha |-> fade_alpha]
        ELSE [start |-> TRUE, ws |-> ws, li |-> Len(text) - ws - 1, alpha |-> 0]

\* NotatorMainWindow._start_fade on the focused editor e
StartFade(e) ==
    LET text == RStrip(e.text)
        ws == WordStartOf(text)
    IN  IF ~invisible_enabled \/ text = <<>>
        THEN [start |-> FALSE, ws |-> fade_word_start, li |-> fade_letter_index,
              alpha |-> fade_alpha]
        ELSE [start |-> TRUE, ws |-> ws, li |-> Len(text) - ws - 1, alpha |-> 0]

\* the idle timer counts down one second
IdleWait ==
    /\ invisible_idle > 1
    /\ invisible_idle' = invisible_idle - 1
    /\ ev' = Ev("idle", "none")
    /\ UNCHANGED <<editVars, invisible_enabled, fading, fade_word_start,
                   fade_letter_index, fade_alpha, fade_timer>>
    /\ UNCHANGED <<timerVars, fadeHist, timerHist>>
    /\ UNCHANGED restVars

\* the single-shot idle timer expires: invisible_idle.timeout -> _start_fade
IdleTimeout ==
    /\ invisible_idle = 1
    /\ invisible_idle' = 0
    /\ LET r == StartFade(tabs[current])
       IN  /\ fade_word_start' = r.ws
           /\ fade_letter_index' = r.li
           /\ fade_alpha' = r.alpha
           /\ fading' = (r.start \/ fading)
           /\ fade_timer' = (r.start \/ fade_timer)
           /\ fade_pre' = IF r.start THEN tabs[current].text ELSE fade_pre
           /\ fade_tab' = IF r.start THEN current ELSE fade_tab
           /\ fade_erased' = IF r.start THEN 0 ELSE fade_erased
    /\ ev' = Ev("idle", "none")
    /\ UNCHANGED <<editVars, invisible_enabled>>
    /\ UNCHANGED <<timerVars, timerHist>>
    /\ UNCHANGED restVars

\* ------------------------------------------------- decay: _fade_word
\* variant of the removal: the character before position p goes
CutAtBefore(e, p) ==
    [e EXCEPT !.text = RemoveAt(e.text, p),
              !.dim = RemoveAt(e.dim, p),
              !.cursor = IF e.cursor > p THEN e.cursor - 1 ELSE e.cursor]

\* removal of the character at position p through a QTextCursor of the
\* document; the editor's own cursor follows the change
CutAt(e, p) ==
    [e EXCEPT !.text = RemoveAt(e.text, p + 1),
              !.dim = RemoveAt(e.dim, p + 1),
              !.cursor = IF e.cursor > p THEN e.cursor - 1 ELSE e.cursor]

\* QTextCursor.setPosition(pos) on a cursor standing at position at: a
\* position outside the document is refused and the cursor stays
SetPosition(e, at, pos) == IF pos \in 0..Len(e.text) THEN pos ELSE at

\* variant of _fade_word: when the word is exhausted the fade ends instead of
\* moving on to the word before it
FadeWordOneWord(e, ws, li, al) ==
    LET p == SetPosition(e, e.cursor, ws + li)
        sel == p < Len(e.text)
        e0 == IF sel THEN [e EXCEPT !.dim[p + 1] = (al > 0)] ELSE e
        e1 == IF sel THEN CutAt(e0, p) ELSE e0
        n1 == IF sel THEN 1 ELSE 0
    IN  IF al + 1 < AlphaZeroAt
        THEN [e |-> e0, ws |-> ws, li |-> li, alpha |-> al + 1,
              stop |-> FALSE, removed |-> 0]
        ELSE IF li - 1 >= 0
        THEN [e |-> e1, ws |-> ws, li |-> li - 1, alpha |-> 0,
              stop |-> FALSE, removed |-> n1]
        ELSE [e |-> e1, ws |-> ws, li |-> NoneIdx, alpha |-> 0,
              stop |-> TRUE, removed |-> n1]

\* NotatorMainWindow._fade_word past its first guard, on the focused editor
\* e: returns the editor, the new _fade_word_start / _fade_letter_index /
\* _fade_alpha, whether the fade stopped and how many characters went
FadeWord(e, ws, li, al) ==
    LET p == SetPosition(e, e.cursor, ws + li)
        sel == p < Len(e.text)
        e0 == IF sel THEN [e EXCEPT !.dim[p + 1] = (al > 0)] ELSE e
        e1 == IF sel THEN CutAt(e0, p) ELSE e0
        q == SetPosition(e1, p, ws - 1)
        selq == ws > 0 /\ q < Len(e1.text) /\ e1.text[q + 1] = " "
        e2 == IF selq THEN CutAt(e1, q) ELSE e1
        text == RStrip(e2.text)
        n1 == IF sel THEN 1 ELSE 0
        n2 == IF selq THEN 1 ELSE 0
    IN  IF al + 1 < AlphaZeroAt
        THEN [e |-> e0, ws |-> ws, li |-> li, alpha |-> al + 1,
              stop |-> FALSE, removed |-> 0]
        ELSE IF li - 1 >= 0
        THEN [e |-> e1, ws |-> ws, li |-> li - 1, alpha |-> 0,
              stop |-> FALSE, removed |-> n1]
        ELSE IF text = <<>>
        THEN [e |-> e2, ws |-> ws, li |-> NoneIdx, alpha |-> 0,
              stop |-> TRUE, removed |-> n1 + n2]
        ELSE [e |-> e2, ws |-> WordStartOf(text),
              li |-> Len(text) - WordStartOf(text) - 1, alpha |-> 0,
              stop |-> FALSE, removed |-> n1 + n2]

\* fade_timer.timeout -> _fade_word
FadeTick ==
    /\ fade_timer
    /\ IF fade_letter_index = NoneIdx
       THEN /\ fade_timer' = FALSE
            /\ fading' = FALSE
            /\ UNCHANGED <<tabs, fade_word_start, fade_letter_index,
                           fade_alpha, fade_erased>>
       ELSE LET r == FadeWord(tabs[current], fade_word_start,
                              fade_letter_index, fade_alpha)
            IN  /\ tabs' = [tabs EXCEPT ![current] = r.e]
                /\ fade_word_start' = r.ws
                /\ fade_letter_index' = r.li
                /\ fade_alpha' = r.alpha
                /\ fade_timer' = ~r.stop
                /\ fading' = (fading /\ ~r.stop)
                /\ fade_erased' = fade_erased + r.removed
    /\ ev' = Ev("fade", "none")
    /\ UNCHANGED <<current, hemingway, invisible_enabled, invisible_idle,
                   fade_pre, fade_tab>>
    /\ UNCHANGED <<timerVars, timerHist>>
    /\ UNCHANGED restVars

\* ------------------------------------------------------ mode switches
\* variant of set_invisible: switching off stops the idle countdown only
SetInvisibleKeepsFade(state) ==
    /\ state = ~invisible_enabled
    /\ invisible_enabled' = state
    /\ invisible_idle' = IF state THEN invisible_delay ELSE 0
    /\ UNCHANGED <<fade_timer, fading>>
    /\ ev' = Ev("mode", "none")
    /\ FadeHistKeep
    /\ UNCHANGED <<editVars, fade_word_start, fade_letter_index, fade_alpha>>
    /\ UNCHANGED <<timerVars, timerHist>>
    /\ UNCHANGED restVars

\* NotatorMainWindow.set_invisible(state); the check box and the flag move
\* together, so state is always the negation of the flag
SetInvisible(state) ==
    /\ state = ~invisible_enabled
    /\ invisible_enabled' = state
    /\ IF state
       THEN /\ invisible_idle' = invisible_delay
            /\ UNCHANGED <<fade_timer, fading>>
       ELSE /\ invisible_idle' = 0
            /\ fade_timer' = FALSE
            /\ fading' = FALSE
    /\ ev' = Ev("mode", "none")
    /\ FadeHistKeep
    /\ UNCHANGED <<editVars, fade_word_start, fade_letter_index, fade_alpha>>
    /\ UNCHANGED <<timerVars, timerHist>>
    /\ UNCHANGED restVars

\* NotatorMainWindow.set_hemingway(state) on the open editors
SetHemingwayTabs(ts, state) ==
    [i \in DOMAIN ts |-> [ts[i] EXCEPT !.hemingway = state]]

\* toggle_hemingway / the Hemingway check box: set_hemingway(not hemingway)
ToggleHemingway ==
    /\ hemingway' = ~hemingway
    /\ tabs' = SetHemingwayTabs(tabs, ~hemingway)
    /\ ev' = Ev("mode", "none")
    /\ UNCHANGED <<current, decayVars, timerVars, fadeHist, timerHist>>
    /\ UNCHANGED restVars

\* ------------------------------------------------------------- tabs
\* the editor new_tab adds: NoteTab(path), nothing else of the window's
\* modes is copied to it but the blind style
NewTabEditor == [NoteTabInit EXCEPT !.blind = blind_typing /\ ~blind_visible]

\* NotatorMainWindow.new_tab
NewTab ==
    /\ Len(tabs) < MaxTabs
    /\ tabs' = Append(tabs, NewTabEditor)
    /\ current' = Len(tabs) + 1
    /\ ev' = Ev("focus", "none")
    /\ UNCHANGED <<hemingway, decayVars, timerVars, fadeHist, timerHist>>
    /\ UNCHANGED restVars

\* variant of prev_tab: the focus change resets the countdown timer
PrevTabResetsTimer ==
    /\ current' = IF current - 1 > 0 THEN current - 1 ELSE current
    /\ ev' = Ev(IF current - 1 > 0 THEN "focus" ELSE "tab", "none")
    /\ timer_active' = FALSE
    /\ running' = FALSE
    /\ blinking' = FALSE
    /\ blink_anim' = IF blink_anim = "none" THEN "none" ELSE "stopped"
    /\ UNCHANGED <<duration, remaining, text_opacity, current_duration,
                   last_reset>>
    /\ UNCHANGED <<tabs, hemingway, decayVars, fadeHist, timerHist>>
    /\ UNCHANGED restVars

\* NotatorMainWindow.prev_tab
PrevTab ==
    /\ current' = IF current - 1 > 0 THEN current - 1 ELSE current
    /\ ev' = Ev(IF current - 1 > 0 THEN "focus" ELSE "tab", "none")
    /\ UNCHANGED <<tabs, hemingway, decayVars, timerVars, fadeHist, timerHist>>
    /\ UNCHANGED restVars

\* NotatorMainWindow.next_tab
NextTab ==
    /\ current' = IF current - 1 < Len(tabs) - 1 THEN current + 1 ELSE current
    /\ ev' = Ev(IF current - 1 < Len(tabs) - 1 THEN "focus" ELSE "tab", "none")
    /\ UNCHANGED <<tabs, hemingway, decayVars, timerVars, fadeHist, timerHist>>
    /\ UNCHANGED restVars

\* ---------------------------------------------------------- start-up
\* TimerWidget.__init__ and the timer fields of NotatorMainWindow.__init__
TimerInit ==
    /\ running = FALSE
    /\ duration = 0
    /\ remaining = 0
    /\ timer_active = FALSE
    /\ blinking = FALSE
    /\ blink_anim = "none"
    /\ text_opacity = 10
    /\ current_duration = 0
    /\ last_reset = 2
    /\ t_ticks = 0
    /\ t_expired = 0
    /\ t_pure = FALSE

\* the self-destruct fields of NotatorMainWindow.__init__; no line has been
\* highlighted yet
RestInit ==
    /\ self_destruct_seconds = 0
    /\ self_destruct_timer = FALSE
    /\ hl_text = <<>>
    /\ hl_fmt = <<>>
    /\ blind_typing = FALSE
    /\ blind_visible = FALSE

\* NotatorMainWindow.__init__ with no stored session: one new empty tab
Init ==
    /\ tabs = <<NoteTabInit>>
    /\ current = 1
    /\ hemingway = FALSE
    /\ invisible_enabled = FALSE
    /\ fading = FALSE
    /\ fade_word_start = 0
    /\ fade_letter_index = NoneIdx
    /\ fade_alpha = 0
    /\ invisible_idle = 0
    /\ fade_timer = FALSE
    /\ ev = Ev("init", "none")
    /\ fade_pre = <<>>
    /\ fade_tab = 0
    /\ fade_erased = 0
    /\ TimerInit
    /\ RestInit

\* ------------------------------------------------------- TimerWidget
Timer == [running |-> running, duration |-> duration, remaining |-> remaining,
          active |-> timer_active, blinking |-> blinking, anim |-> blink_anim,
          opacity |-> text_opacity]

SetTimer(t) ==
    /\ running' = t.running
    /\ duration' = t.duration
    /\ remaining' = t.remaining
    /\ timer_active' = t.active
    /\ blinking' = t.blinking
    /\ blink_anim' = t.anim
    /\ text_opacity' = t.opacity

\* the phase of the countdown: Running while it counts, Expired during the
\* blink that follows the timeout, Idle otherwise
Phase(t) == IF t.running THEN "Running" ELSE IF t.blinking THEN "Expired" ELSE "Idle"

\* variant of the stop of the blink animation: the group keeps running
StopAnimNot(a) == a

\* QAbstractAnimation.stop() on self._blink_anim if there is one: the group
\* stops where it is and does not emit finished
StopAnim(a) == IF a = "none" THEN "none" ELSE "stopped"

\* variant of start: a countdown that is already running keeps its
\* remaining time
TimerStartKeep(t, seconds) ==
    [t EXCEPT !.anim = StopAnim(t.anim), !.duration = seconds,
              !.remaining = IF t.running THEN t.remaining ELSE seconds,
              !.blinking = FALSE, !.running = TRUE, !.active = TRUE]

\* TimerWidget.start(seconds)
TimerStart(t, seconds) ==
    [t EXCEPT !.anim = StopAnim(t.anim), !.duration = seconds,
              !.remaining = seconds, !.blinking = FALSE, !.running = TRUE,
              !.active = TRUE]

\* TimerWidget.reset()
TimerReset(t) ==
    [t EXCEPT !.active = FALSE, !.anim = StopAnim(t.anim), !.running = FALSE,
              !.blinking = FALSE]

\* variant of _finish: the 1 s QTimer is left running
TimerFinishKeepsTicking(t) ==
    [t EXCEPT !.running = FALSE, !.remaining = 0,
              !.blinking = TRUE, !.anim = "running", !.opacity = 10]

\* TimerWidget._finish() with _start_blink(): the new animation group starts
\* at its start value 1.0
TimerFinish(t) ==
    [t EXCEPT !.active = FALSE, !.running = FALSE, !.remaining = 0,
              !.blinking = TRUE, !.anim = "running", !.opacity = 10]

\* variant of _update_time: the countdown finishes one tick late
UpdateTimeLate(t) ==
    IF t.remaining - 1 < 0
    THEN [t |-> TimerFinish([t EXCEPT !.remaining = t.remaining - 1]), emit |-> 1]
    ELSE [t |-> [t EXCEPT !.remaining = t.remaining - 1], emit |-> 0]

\* TimerWidget._update_time(): the new timer state and the number of timeout
\* signals emitted
UpdateTime(t) ==
    IF t.remaining - 1 <= 0
    THEN [t |-> TimerFinish([t EXCEPT !.remaining = t.remaining - 1]), emit |-> 1]
    ELSE [t |-> [t EXCEPT !.remaining = t.remaining - 1], emit |-> 0]

\* _timer.timeout -> _update_time, once per second while the QTimer runs
Tick1s ==
    /\ timer_active
    /\ LET r == UpdateTime(Timer)
       IN  /\ SetTimer(r.t)
           /\ t_expired' = t_expired + r.emit
    /\ t_ticks' = t_ticks + 1
    /\ last_reset' = IF last_reset < 2 THEN last_reset + 1 ELSE 2
    /\ ev' = EvT("tick", 0, Phase(Timer))
    /\ UNCHANGED <<current_duration, t_pure>>
    /\ UNCHANGED <<editVars, decayVars, fadeHist>>
    /\ UNCHANGED restVars

\* two seconds or more go by without a key on the reset shortcut
TimePasses ==
    /\ ~timer_active
    /\ last_reset < 2
    /\ last_reset' = 2
    /\ ev' = EvT("wait", 0, Phase(Timer))
    /\ UNCHANGED <<running, duration, remaining, timer_active, blinking,
                   blink_anim, text_opacity, current_duration>>
    /\ UNCHANGED <<editVars, decayVars, fadeHist, timerHist>>
    /\ UNCHANGED restVars

\* the blink animation moves the text opacity between 1.0 and 0.0
BlinkStep(o) ==
    /\ blink_anim = "running"
    /\ o # text_opacity
    /\ text_opacity' = o
    /\ ev' = EvT("blink", 0, Phase(Timer))
    /\ UNCHANGED <<running, duration, remaining, timer_active, blinking,
                   blink_anim, current_duration, last_reset>>
    /\ UNCHANGED <<editVars, decayVars, fadeHist, timerHist>>
    /\ UNCHANGED restVars

\* the animation group ends after its 20 loops: finished -> _stop_blink
BlinkFinished ==
    /\ blink_anim = "running"
    /\ blinking' = FALSE
    /\ text_opacity' = 10
    /\ blink_anim' = "none"
    /\ ev' = EvT("blinkend", 0, Phase(Timer))
    /\ UNCHANGED <<running, duration, remaining, timer_active,
                   current_duration, last_reset>>
    /\ UNCHANGED <<editVars, decayVars, fadeHist, timerHist>>
    /\ UNCHANGED restVars

\* NotatorMainWindow._timer_selected(seconds), the slot of the menu's
\* changed signal
TimerSelected(seconds) ==
    /\ IF seconds # 0
       THEN /\ SetTimer(TimerStart(Timer, seconds))
            /\ current_duration' = seconds
            /\ t_ticks' = 0
            /\ t_expired' = 0
            /\ t_pure' = TRUE
            /\ ev' = EvT("start", seconds, Phase(Timer))
       ELSE /\ ev' = EvT("menu", 0, Phase(Timer))
            /\ UNCHANGED <<timerHist, running, duration, remaining,
                           timer_active, blinking, blink_anim, text_opacity,
                           current_duration>>
    /\ UNCHANGED last_reset
    /\ UNCHANGED <<editVars, decayVars, fadeHist>>
    /\ UNCHANGED restVars

\* TimerMenu.presets
Presets == {30, 3 * 60, 7 * 60, 11 * 60}

\* TimerMenu._choose(seconds): a preset button
Choose(seconds) ==
    /\ seconds \in Presets
    /\ TimerSelected(seconds)

\* the characters typed into the custom duration field
InputChars == {"-", "0", "1", "s"}

Digits == {"0", "1"}

RECURSIVE DigitsVal(_)
DigitsVal(s) ==
    IF s = <<>> THEN 0
    ELSE 10 * DigitsVal(SubSeq(s, 1, Len(s) - 1))
         + (IF s[Len(s)] = "1" THEN 1 ELSE 0)

AllDigits(s) == s # <<>> /\ \A i \in DOMAIN s : s[i] \in Digits

\* Python int(text) on the input alphabet: an optional minus sign and at
\* least one digit, anything else raises ValueError
ParseInt(s) ==
    IF s # <<>> /\ s[1] = "-"
    THEN IF AllDigits(Tail(s)) THEN [ok |-> TRUE, val |-> 0 - DigitsVal(Tail(s))]
         ELSE [ok |-> FALSE, val |-> 0]
    ELSE IF AllDigits(s) THEN [ok |-> TRUE, val |-> DigitsVal(s)]
         ELSE [ok |-> FALSE, val |-> 0]

\* variant of _custom: a text that does not parse counts as one minute
CustomSecondsDefault(text) ==
    IF text # <<>> /\ text[Len(text)] = "s"
    THEN IF ParseInt(SubSeq(text, 1, Len(text) - 1)).ok
         THEN ParseInt(SubSeq(text, 1, Len(text) - 1))
         ELSE [ok |-> TRUE, val |-> 60]
    ELSE IF ParseInt(text).ok
         THEN [ok |-> TRUE, val |-> ParseInt(text).val * 60]
         ELSE [ok |-> TRUE, val |-> 60]

\* the seconds TimerMenu._custom computes from the field's text
CustomSeconds(text) ==
    IF text # <<>> /\ text[Len(text)] = "s"
    THEN ParseInt(SubSeq(text, 1, Len(text) - 1))
    ELSE [ok |-> ParseInt(text).ok, val |-> ParseInt(text).val * 60]

\* the texts of the custom field, up to MaxInput characters
RECURSIVE InputsOfLen(_)
InputsOfLen(n) ==
    IF n = 0 THEN {<<>>}
    ELSE {Append(s, c) : s \in InputsOfLen(n - 1), c \in InputChars}

Inputs == UNION {InputsOfLen(n) : n \in 0..MaxInput}

\* one text for each outcome of the parse: texts that parse to the same
\* seconds (or are all refused) drive _custom the same way
InputReps ==
    {CHOOSE t \in Inputs : CustomSeconds(t) = o :
        o \in {CustomSeconds(t) : t \in Inputs}}

\* TimerMenu._custom(): Return pressed in the custom field
Custom(text) ==
    /\ text \in Inputs
    /\ IF CustomSeconds(text).ok
       THEN TimerSelected(CustomSeconds(text).val)
       ELSE /\ ev' = EvT("rejected", 0, Phase(Timer))
            /\ UNCHANGED <<timerVars, timerHist>>
            /\ UNCHANGED <<editVars, decayVars, fadeHist, restVars>>

\* variant of reset_or_stop_timer: a slow press restarts only a countdown
\* that is still running
ResetOrStopRunningOnly(quick) ==
    /\ quick => last_reset < 2
    /\ IF quick
       THEN /\ SetTimer(TimerReset(Timer))
            /\ current_duration' = 0
            /\ t_pure' = FALSE
            /\ ev' = EvT("stop", 0, Phase(Timer))
            /\ UNCHANGED <<t_ticks, t_expired>>
       ELSE IF current_duration # 0 /\ running
       THEN /\ SetTimer(TimerStart(Timer, current_duration))
            /\ t_ticks' = 0
            /\ t_expired' = 0
            /\ t_pure' = TRUE
            /\ ev' = EvT("restart", current_duration, Phase(Timer))
            /\ UNCHANGED current_duration
       ELSE /\ ev' = EvT("norestart", 0, Phase(Timer))
            /\ UNCHANGED <<running, duration, remaining, timer_active,
                           blinking, blink_anim, text_opacity,
                           current_duration, timerHist>>
    /\ last_reset' = 0
    /\ UNCHANGED <<editVars, decayVars, fadeHist>>
    /\ UNCHANGED restVars

\* NotatorMainWindow.reset_or_stop_timer(); quick is "now - last_reset < 2"
\* last_reset counts the seconds known to have gone by (the 1 s ticks seen);
\* more time may have passed, so a slow press is possible at any count
ResetOrStop(quick) ==
    /\ quick => last_reset < 2
    /\ IF quick
       THEN /\ SetTimer(TimerReset(Timer))
            /\ current_duration' = 0
            /\ t_pure' = FALSE
            /\ ev' = EvT("stop", 0, Phase(Timer))
            /\ UNCHANGED <<t_ticks, t_expired>>
       ELSE IF current_duration # 0
       THEN /\ SetTimer(TimerStart(Timer, current_duration))
            /\ t_ticks' = 0
            /\ t_expired' = 0
            /\ t_pure' = TRUE
            /\ ev' = EvT("restart", current_duration, Phase(Timer))
            /\ UNCHANGED current_duration
       ELSE /\ ev' = EvT("norestart", 0, Phase(Timer))
            /\ UNCHANGED <<running, duration, remaining, timer_active,
                           blinking, blink_anim, text_opacity,
                           current_duration, timerHist>>
    /\ last_reset' = 0
    /\ UNCHANGED <<editVars, decayVars, fadeHist>>
    /\ UNCHANGED restVars

\* the countdown timer and its menu
NextTimer ==
    \/ \E p \in Presets : Choose(p)
    \/ \E text \in InputReps : Custom(text)
    \/ Tick1s
    \/ TimePasses
    \/ \E o \in {0, 5, 10} : BlinkStep(o)
    \/ BlinkFinished
    \/ \E q \in BOOLEAN : ResetOrStop(q)

SpecTimer == Init /\ [][NextTimer]_vars

\* the countdown timer started from the preset buttons only
NextTimerPresets ==
    \/ \E p \in Presets : Choose(p)
    \/ Tick1s
    \/ TimePasses
    \/ \E o \in {0, 5, 10} : BlinkStep(o)
    \/ BlinkFinished
    \/ \E q \in BOOLEAN : ResetOrStop(q)

\* the blink animation group runs its 20 loops and finishes
SpecTimerLive ==
    /\ Init
    /\ [][NextTimerPresets]_vars
    /\ WF_vars(BlinkFinished)

KeyInputs ==
    {<<"Insert", c>> : c \in Chars} \cup {<<k, "">> : k \in KeyClasses \ {"Insert"}}

\* a writing session on one buffer: keys, mouse, the two decay timers and
\* the two mode switches
Next ==
    \/ \E k \in KeyInputs : KeyPress(k[1], k[2])
    \/ \E c \in 0..MaxLen : MousePressEditor(c)
    \/ MousePressOther
    \/ IdleWait
    \/ IdleTimeout
    \/ FadeTick
    \/ \E b \in BOOLEAN : SetInvisible(b)
    \/ ToggleHemingway

Spec == Init /\ [][Next]_vars

\* a session with several buffers: typing, the decay timers, the mode
\* switches and the tab commands
NextTabs ==
    \/ \E c \in Chars : KeyPress("Insert", c)
    \/ IdleWait
    \/ IdleTimeout
    \/ FadeTick
    \/ \E b \in BOOLEAN : SetInvisible(b)
    \/ ToggleHemingway
    \/ NewTab
    \/ PrevTab
    \/ NextTab

SpecTabs == Init /\ [][NextTabs]_vars

\* the countdown timer in a session with several buffers: the timer, its
\* preset buttons and the tab commands
NextFocus ==
    \/ NewTab
    \/ PrevTab
    \/ NextTab
    \/ NextTimerPresets

SpecFocus == Init /\ [][NextFocus]_vars

\* ------------------------------------------------ MarkdownHighlighter
MaxHlLen == 5

\* the characters of a line that the rules tell apart; x is any other
\* character
HlChars == {"*", "#", " ", ">", "x"}

\* character at 0-based position p of line t, "" outside the line
At(t, p) == IF p \in 0..(Len(t) - 1) THEN t[p + 1] ELSE ""

\* \s of the regular expressions
IsSpace(c) == c = " "

Min(S) == CHOOSE x \in S : \A y \in S : x <= y

\* QTextCharFormat values: weight, italic, point size (0 the default font
\* size, n the size of a level-n heading) and foreground
NoFormat == [bold |-> FALSE, italic |-> FALSE, size |-> 0, color |-> "default"]

bold_format == [NoFormat EXCEPT !.bold = TRUE]

italic_format == [NoFormat EXCEPT !.italic = TRUE]

marker_format == [NoFormat EXCEPT !.color = "marker"]

quote_format == [NoFormat EXCEPT !.color = "quote", !.italic = TRUE]

bullet_format == [NoFormat EXCEPT !.color = "bullet"]

\* heading_format with the point size of the level ("fmt" in highlightBlock)
heading_format(level) ==
    [bold |-> TRUE, italic |-> FALSE, size |-> level, color |-> "heading"]

\* QSyntaxHighlighter.setFormat(start, count, format): the characters of the
\* range that lie in the block take the format
SetFormat(f, start, count, fmt) ==
    [i \in 1..Len(f) |->
        IF start <= i - 1 /\ i - 1 < start + count THEN fmt ELSE f[i]]

\* \*\*(.+?)\*\* : the closing pairs a pair opened at i can lazily reach
BoldEnds(t, i) ==
    {j \in (i + 3)..(Len(t) - 2) : At(t, j) = "*" /\ At(t, j + 1) = "*"}

BoldStarts(t, from) ==
    {i \in from..(Len(t) - 2) :
        At(t, i) = "*" /\ At(t, i + 1) = "*" /\ BoldEnds(t, i) # {}}

\* globalMatch of the bold expression from offset from: the matches
\* [start, end) in order
RECURSIVE BoldMatches(_, _)
BoldMatches(t, from) ==
    IF BoldStarts(t, from) = {} THEN <<>>
    ELSE LET i == Min(BoldStarts(t, from))
             j == Min(BoldEnds(t, i))
         IN  <<[start |-> i, end |-> j + 2]>> \o BoldMatches(t, j + 2)

\* (?<!\*)\*(?!\s)(.+?)(?<!\s)\*(?!\*) : closing asterisks an opening one
\* at i can lazily reach
ItalicEnds(t, i) ==
    {j \in (i + 2)..(Len(t) - 1) :
        At(t, j) = "*" /\ ~IsSpace(At(t, j - 1)) /\ At(t, j + 1) # "*"}

ItalicStarts(t, from) ==
    {i \in from..(Len(t) - 1) :
        /\ At(t, i) = "*"
        /\ At(t, i - 1) # "*"
        /\ ~IsSpace(At(t, i + 1))
        /\ ItalicEnds(t, i) # {}}

RECURSIVE ItalicMatches(_, _)
ItalicMatches(t, from) ==
    IF ItalicStarts(t, from) = {} THEN <<>>
    ELSE LET i == Min(ItalicStarts(t, from))
             j == Min(ItalicEnds(t, i))
         IN  <<[start |-> i, end |-> j + 1]>> \o ItalicMatches(t, j + 1)

\* the three setFormat calls of one bold match, then of the ones after it
RECURSIVE ApplyBold(_, _)
ApplyBold(f, ms) ==
    IF ms = <<>> THEN f
    ELSE LET m == Head(ms)
             f1 == SetFormat(f, m.start + 2, m.end - m.start - 4, bold_format)
             f2 == SetFormat(f1, m.start, 2, marker_format)
             f3 == SetFormat(f2, m.end - 2, 2, marker_format)
         IN  ApplyBold(f3, Tail(ms))

RECURSIVE ApplyItalic(_, _)
ApplyItalic(f, ms) ==
    IF ms = <<>> THEN f
    ELSE LET m == Head(ms)
             f1 == SetFormat(f, m.start + 1, m.end - m.start - 2, italic_format)
             f2 == SetFormat(f1, m.start, 1, marker_format)
             f3 == SetFormat(f2, m.end - 1, 1, marker_format)
         IN  ApplyItalic(f3, Tail(ms))

\* number of characters c the line starts with, counted from position p
RECURSIVE RunOf(_, _, _)
RunOf(t, p, c) == IF At(t, p) = c THEN 1 + RunOf(t, p + 1, c) ELSE 0

\* ^(#{1,6})\s+(.*) : the level of the heading, 0 when the line is none
HeadingLevel(t) ==
    LET n == RunOf(t, 0, "#")
    IN  IF n \in 1..6 /\ IsSpace(At(t, n)) THEN n ELSE 0

\* variant of the heading rule: the marker takes the plain marker format
ApplyHeadingPlainMarker(f, t) ==
    LET level == HeadingLevel(t)
        fmt == heading_format(level)
    IN  IF level = 0 THEN f
        ELSE SetFormat(SetFormat(f, 0, Len(t), fmt), 0, level, marker_format)

ApplyHeading(f, t) ==
    LET level == HeadingLevel(t)
        fmt == heading_format(level)
    IN  IF level = 0 THEN f
        ELSE SetFormat(SetFormat(f, 0, Len(t), fmt),
                       0, level, [fmt EXCEPT !.color = marker_format.color])

\* ^\s*\*\s+(.*) : the asterisk after the leading blanks, blanks after it
ApplyBullet(f, t) ==
    LET k == RunOf(t, 0, " ")
        g == k + 1 + RunOf(t, k + 1, " ")
    IN  IF At(t, k) = "*" /\ IsSpace(At(t, k + 1))
        THEN SetFormat(SetFormat(f, 0, 1, bullet_format),
                       g, Len(t) - g, NoFormat)
        ELSE f

\* ^>\s+(.*)
ApplyQuote(f, t) ==
    IF At(t, 0) = ">" /\ IsSpace(At(t, 1))
    THEN SetFormat(SetFormat(f, 0, Len(t), quote_format), 0, 1, marker_format)
    ELSE f

\* MarkdownHighlighter.highlightBlock(text) on a block whose formats start
\* out empty: bold, italic, heading, bullet, quote
HighlightBlock(text) ==
    LET f0 == [i \in 1..Len(text) |-> NoFormat]
        f1 == ApplyBold(f0, BoldMatches(text, 0))
        f2 == ApplyItalic(f1, ItalicMatches(text, 0))
        f3 == ApplyHeading(f2, text)
        f4 == ApplyBullet(f3, text)
    IN  ApplyQuote(f4, text)

\* the lines of the scenarios: "# Title", "a **b** c", "###### x",
\* "####### x"
HlScenarios ==
    { <<"#", " ", "T", "i", "t", "l", "e">>,
      <<"a", " ", "*", "*", "b", "*", "*", " ", "c">>,
      <<"#", "#", "#", "#", "#", "#", " ", "x">>,
      <<"#", "#", "#", "#", "#", "#", "#", " ", "x">> }

RECURSIVE HlLinesOfLen(_)
HlLinesOfLen(n) ==
    IF n = 0 THEN {<<>>}
    ELSE {Append(s, c) : s \in HlLinesOfLen(n - 1), c \in HlChars}

HlLines == HlScenarios \cup UNION {HlLinesOfLen(n) : n \in 0..MaxHlLen}

\* a document line, not highlighted yet
InitFormat ==
    /\ tabs = <<NoteTabInit>>
    /\ current = 1
    /\ hemingway = FALSE
    /\ invisible_enabled = FALSE
    /\ fading = FALSE
    /\ fade_word_start = 0
    /\ fade_letter_index = NoneIdx
    /\ fade_alpha = 0
    /\ invisible_idle = 0
    /\ fade_timer = FALSE
    /\ ev = Ev("init", "none")
    /\ fade_pre = <<>>
    /\ fade_tab = 0
    /\ fade_erased = 0
    /\ TimerInit
    /\ self_destruct_seconds = 0
    /\ self_destruct_timer = FALSE
    /\ hl_text \in HlLines
    /\ hl_fmt = [i \in 1..Len(hl_text) |-> NoFormat]
    /\ blind_typing = FALSE
    /\ blind_visible = FALSE

\* QSyntaxHighlighter re-highlights the block: highlightBlock(text)
Rehighlight ==
    /\ hl_fmt' = HighlightBlock(hl_text)
    /\ ev' = Ev("highlight", "none")
    /\ UNCHANGED <<hl_text, destructVars, blindVars>>
    /\ UNCHANGED <<editVars, decayVars, timerVars, fadeHist, timerHist>>

NextFormat == Rehighlight

SpecFormat == InitFormat /\ [][NextFormat]_vars

\* ------------------------------------------- tabs, files, blind typing
MaxFileLen == 1

\* the texts of the note files on disk: the lines of the highlighter
\* scenarios and short texts
FileTexts ==
    HlScenarios \cup
        UNION {{t \in [1..n -> Chars] : TRUE} : n \in 0..MaxFileLen}

\* the editor built for a file: NoteTab(path), setText(text), then the
\* blind style if blind typing hides the text
FileEditor(text) ==
    [text |-> text, cursor |-> 0, hemingway |-> FALSE,
     dim |-> [i \in 1..Len(text) |-> FALSE],
     blind |-> blind_typing /\ ~blind_visible]

\* QTabWidget.removeTab(index) of the current page: the page to its right
\* becomes current, or the last one; with no page left the index is -1
RemoveTab(ts, cur) ==
    LET rest == RemoveAt(ts, cur)
    IN  [tabs |-> rest, current |-> IF cur <= Len(rest) THEN cur ELSE Len(rest)]

\* variant of close_current_tab: no new tab replaces the last one
CloseCurrentTabKeepsNone(ts, cur) ==
    IF cur - 1 # -1 THEN RemoveTab(ts, cur) ELSE [tabs |-> ts, current |-> cur]

\* NotatorMainWindow.close_current_tab on the pages ts with current page cur
CloseCurrentTab(ts, cur) ==
    IF cur - 1 # -1
    THEN LET r == RemoveTab(ts, cur)
         IN  IF Len(r.tabs) = 0
             THEN [tabs |-> <<NewTabEditor>>, current |-> 1]
             ELSE r
    ELSE [tabs |-> ts, current |-> cur]

\* Ctrl+W
CloseTab ==
    /\ LET r == CloseCurrentTab(tabs, current)
       IN  tabs' = r.tabs /\ current' = r.current
    /\ ev' = Ev("close", "none")
    /\ UNCHANGED <<hemingway, decayVars, timerVars, fadeHist, timerHist>>
    /\ UNCHANGED restVars

\* NotatorMainWindow._delete_current_file: the file is removed and the tab
\* closed, unless os.remove fails
DeleteCurrentFile(fails) ==
    /\ LET r == IF fails THEN [tabs |-> tabs, current |-> current]
                ELSE CloseCurrentTab(tabs, current)
       IN  tabs' = r.tabs /\ current' = r.current
    /\ ev' = Ev(IF fails THEN "keep" ELSE "delete", "none")
    /\ UNCHANGED <<hemingway, decayVars, timerVars, fadeHist, timerHist>>
    /\ UNCHANGED restVars

\* NotatorMainWindow._file_action(path) in mode "open": a file that exists
\* is shown in a new tab, which becomes current; setText makes the
\* highlighter format the text
OpenFile(text, exists) ==
    /\ exists => Len(tabs) < MaxTabs
    /\ IF exists
       THEN /\ tabs' = Append(tabs, FileEditor(text))
            /\ current' = Len(tabs) + 1
            /\ hl_text' = text
            /\ hl_fmt' = HighlightBlock(text)
            /\ ev' = Ev("open", "none")
       ELSE /\ ev' = Ev("nofile", "none")
            /\ UNCHANGED <<tabs, current, formatVars>>
    /\ UNCHANGED <<hemingway, decayVars, timerVars, fadeHist, timerHist>>
    /\ UNCHANGED <<destructVars, blindVars>>

\* NotatorMainWindow._apply_blind with the flags bt, bv: NoteTab.set_blind
\* on every editor
ApplyBlind(ts, bt, bv) ==
    [i \in DOMAIN ts |-> [ts[i] EXCEPT !.blind = bt /\ ~bv]]

\* NotatorMainWindow.set_blind_mode(state), the slot of the check box
SetBlindMode(state) ==
    /\ state = ~blind_typing
    /\ blind_typing' = state
    /\ blind_visible' = FALSE
    /\ tabs' = ApplyBlind(tabs, state, FALSE)
    /\ ev' = Ev("blind", "none")
    /\ UNCHANGED <<current, hemingway, decayVars, timerVars, fadeHist, timerHist>>
    /\ UNCHANGED <<destructVars, formatVars>>

\* NotatorMainWindow.toggle_blind_visibility (Ctrl+.)
ToggleBlindVisibility ==
    /\ IF ~blind_typing
       THEN UNCHANGED <<tabs, blind_visible>>
       ELSE /\ blind_visible' = ~blind_visible
            /\ tabs' = ApplyBlind(tabs, blind_typing, ~blind_visible)
    /\ ev' = Ev("peek", "none")
    /\ UNCHANGED <<current, hemingway, decayVars, timerVars, fadeHist, timerHist>>
    /\ UNCHANGED <<blind_typing, destructVars, formatVars>>

\* the index load_session makes current: min(saved, count - 1) if the tab
\* widget accepts it, else the first tab, which addTab made current
SessionCurrent(saved, count) ==
    LET idx == IF saved < count - 1 THEN saved ELSE count - 1
    IN  IF idx \in 0..(count - 1) THEN idx + 1 ELSE 1

\* the window after __init__: the files of the session that still exist
\* are open, or, if there is none, one new tab
InitWindow ==
    /\ \E n \in 0..MaxTabs : \E files \in [1..n -> FileTexts] :
         \E saved \in -1..MaxTabs :
           IF n = 0
           THEN tabs = <<NoteTabInit>> /\ current = 1
           ELSE /\ tabs = [i \in 1..n |->
                            [text |-> files[i], cursor |-> 0,
                             hemingway |-> FALSE,
                             dim |-> [j \in 1..Len(files[i]) |-> FALSE],
                             blind |-> FALSE]]
                /\ current = SessionCurrent(saved, n)
    /\ hemingway = FALSE
    /\ invisible_enabled = FALSE
    /\ fading = FALSE
    /\ fade_word_start = 0
    /\ fade_letter_index = NoneIdx
    /\ fade_alpha = 0
    /\ invisible_idle = 0
    /\ fade_timer = FALSE
    /\ ev = Ev("init", "none")
    /\ fade_pre = <<>>
    /\ fade_tab = 0
    /\ fade_erased = 0
    /\ TimerInit
    /\ RestInit

NextWindow ==
    \/ NewTab
    \/ PrevTab
    \/ NextTab
    \/ CloseTab
    \/ \E fails \in BOOLEAN : DeleteCurrentFile(fails)
    \/ \E text \in FileTexts : \E exists \in BOOLEAN : OpenFile(text, exists)
    \/ \E b \in BOOLEAN : SetBlindMode(b)
    \/ ToggleBlindVisibility

SpecWindow == InitWindow /\ [][NextWindow]_vars

\* --------------------------------------------------- self-destruct
MaxDestructLeft == 2

\* QTextEdit.clear()
Clear(e) == [e EXCEPT !.text = <<>>, !.dim = <<>>, !.cursor = 0]

\* variant of _tick_self_destruct: only the current editor is cleared
TickSelfDestructCurrentOnly ==
    /\ self_destruct_timer
    /\ IF self_destruct_seconds <= 0
       THEN /\ ev' = Ev("destruct", "none")
            /\ UNCHANGED <<tabs, destructVars>>
       ELSE /\ self_destruct_seconds' = self_destruct_seconds - 1
            /\ IF self_destruct_seconds - 1 <= 0
               THEN /\ tabs' = [tabs EXCEPT ![current] = Clear(tabs[current])]
                    /\ self_destruct_timer' = FALSE
                    /\ ev' = Ev("clear", "none")
               ELSE /\ ev' = Ev("destruct", "none")
                    /\ UNCHANGED <<tabs, self_destruct_timer>>
    /\ UNCHANGED <<current, hemingway, decayVars, fadeHist>>
    /\ UNCHANGED <<timerVars, timerHist, formatVars, blindVars>>

\* self_destruct_timer.timeout -> _tick_self_destruct
TickSelfDestruct ==
    /\ self_destruct_timer
    /\ IF self_destruct_seconds <= 0
       THEN /\ ev' = Ev("destruct", "none")
            /\ UNCHANGED <<tabs, destructVars>>
       ELSE /\ self_destruct_seconds' = self_destruct_seconds - 1
            /\ IF self_destruct_seconds - 1 <= 0
               THEN /\ tabs' = [i \in DOMAIN tabs |-> Clear(tabs[i])]
                    /\ self_destruct_timer' = FALSE
                    /\ ev' = Ev("clear", "none")
               ELSE /\ ev' = Ev("destruct", "none")
                    /\ UNCHANGED <<tabs, self_destruct_timer>>
    /\ UNCHANGED <<current, hemingway, decayVars, fadeHist>>
    /\ UNCHANGED <<timerVars, timerHist, formatVars, blindVars>>

\* seconds per minute in start_self_destruct
SecondsPerMinute == 60

\* the least value of MindMenu.sd_spin
SdSpinMinimum == 5

MaxMinutes == 5

\* the minutes start_self_destruct is called with: the values of the spin
\* box from its minimum on, and the values the guard of the slot rejects
Minutes == {-1, 0} \cup SdSpinMinimum..MaxMinutes

\* MindMenu.startDestruct -> start_self_destruct
StartSelfDestruct(minutes) ==
    /\ IF minutes <= 0
       THEN /\ ev' = [Ev("nostart", "none") EXCEPT !.arg = minutes]
            /\ UNCHANGED destructVars
       ELSE /\ self_destruct_seconds' = minutes * SecondsPerMinute
            /\ self_destruct_timer' = TRUE
            /\ ev' = [Ev("start", "none") EXCEPT !.arg = minutes]
    /\ UNCHANGED <<tabs, current, hemingway, decayVars, fadeHist>>
    /\ UNCHANGED <<timerVars, timerHist, formatVars, blindVars>>

\* a session in which self-destruct is started: typing into several
\* buffers, the start button and the self-destruct timer
NextSelfDestruct ==
    \/ \E c \in Chars : KeyPress("Insert", c)
    \/ NewTab
    \/ NextTab
    \/ \E m \in Minutes : StartSelfDestruct(m)
    \/ TickSelfDestruct

SpecSelfDestruct == Init /\ [][NextSelfDestruct]_vars

\* ------------------------------------------------- no further input
MaxQuietLen == 3

QuietChars == {"a", "\n", " "}

RECURSIVE QuietTextsOfLen(_)
QuietTextsOfLen(n) ==
    IF n = 0 THEN {<<>>}
    ELSE {Append(s, c) : s \in QuietTextsOfLen(n - 1), c \in QuietChars}

QuietTexts == UNION {QuietTextsOfLen(n) : n \in 0..MaxQuietLen}

\* one buffer holding some text, invisible ink just switched on
\* (set_invisible(True)): the idle countdown runs for its full period
InitQuiet ==
    /\ \E t \in QuietTexts : \E c \in 0..Len(t) :
           tabs = <<[text |-> t, cursor |-> c, hemingway |-> FALSE,
                     dim |-> [i \in 1..Len(t) |-> FALSE], blind |-> FALSE]>>
    /\ current = 1
    /\ hemingway = FALSE
    /\ invisible_enabled = TRUE
    /\ fading = FALSE
    /\ fade_word_start = 0
    /\ fade_letter_index = NoneIdx
    /\ fade_alpha = 0
    /\ invisible_idle = invisible_delay
    /\ fade_timer = FALSE
    /\ ev = Ev("mode", "none")
    /\ fade_pre = <<>>
    /\ fade_tab = 0
    /\ fade_erased = 0
    /\ TimerInit
    /\ RestInit

\* only the two decay timers fire
NextQuiet ==
    \/ IdleWait
    \/ IdleTimeout
    \/ FadeTick

\* a started QTimer fires as long as the event loop runs
SpecQuiet ==
    /\ InitQuiet
    /\ [][NextQuiet]_vars
    /\ WF_vars(IdleWait)
    /\ WF_vars(IdleTimeout)
    /\ WF_vars(FadeTick)

\* one buffer holding some text, invisible ink just switched on, and a
\* self-destruct (start_self_destruct) whose countdown has a few seconds
\* left
InitDestruct ==
    /\ \E t \in QuietTexts : \E c \in 0..Len(t) :
           tabs = <<[text |-> t, cursor |-> c, hemingway |-> FALSE,
                     dim |-> [i \in 1..Len(t) |-> FALSE], blind |-> FALSE]>>
    /\ current = 1
    /\ hemingway = FALSE
    /\ invisible_enabled = TRUE
    /\ fading = FALSE
    /\ fade_word_start = 0
    /\ fade_letter_index = NoneIdx
    /\ fade_alpha = 0
    /\ invisible_idle = invisible_delay
    /\ fade_timer = FALSE
    /\ ev = Ev("mode", "none")
    /\ fade_pre = <<>>
    /\ fade_tab = 0
    /\ fade_erased = 0
    /\ TimerInit
    /\ self_destruct_seconds \in 1..MaxDestructLeft
    /\ self_destruct_timer = TRUE
    /\ hl_text = <<>>
    /\ hl_fmt = <<>>
    /\ blind_typing = FALSE
    /\ blind_visible = FALSE

\* the decay timers and the self-destruct timer fire, no input arrives
NextDestruct ==
    \/ IdleWait
    \/ IdleTimeout
    \/ FadeTick
    \/ TickSelfDestruct

SpecDestruct == InitDestruct /\ [][NextDestruct]_vars

\* ====================================================== properties
\* some character of some open buffer is drawn below full opacity
Ghost == \E i \in DOMAIN tabs : \E j \in DOMAIN tabs[i].dim : tabs[i].dim[j]

\* the texts one key press can turn the text of editor e into
Edited(e) == {SuperKeyPress(e, k[1], k[2]).text : k \in KeyInputs}

\* C1: while restricted_edit is on, a key of a blocked class is discarded
\* without any effect: buffers, cursors and the whole decay state (fading,
\* idle countdown, fade position and opacity) stay as they were.
C1_BlockedKeyHasNoEffect ==
    [][ev'.kind = "blocked" => UNCHANGED <<tabs, decayVars>>]_vars

\* C2: an interruption that arrives while the current character is
\* partially dimmed removes no character: only the interrupting key's own
\* edit changes a text, and if the fade had not removed a character yet the
\* text it interrupts is still the pre-decay text.
C2_PartialDimLosesNothing ==
    [][(ev'.cut # "none" /\ fade_alpha \in 1..(AlphaZeroAt - 1)) =>
          /\ \A i \in DOMAIN tabs : i # current => tabs'[i].text = tabs[i].text
          /\ tabs'[current].text \in
                 (IF ev'.kind = "allowed" THEN Edited(tabs[current])
                  ELSE {tabs[current].text})
          /\ fade_erased = 0 => tabs[fade_tab].text = fade_pre]_vars

C2_Witness ==
    /\ ev.cut = "first"
    /\ ~fading
    /\ fade_alpha \in 1..(AlphaZeroAt - 1)

\* C3: right after an interruption of a fade every character left in a
\* buffer is drawn at full opacity.
C3_NoGhostAfterInterruption == ev.cut # "none" => ~Ghost

\* C4: an accepted key press that finds the engine fading leaves it
\* watching, the fade timer stopped and the idle countdown armed for the
\* full idle period.
C4_AcceptedEditRearmsIdle ==
    [][(fading /\ ev'.kind = "allowed") =>
          (~fading' /\ ~fade_timer' /\ invisible_idle' = invisible_delay)]_vars

C4_Witness ==
    /\ ev.kind = "allowed"
    /\ ev.cut # "none"
    /\ ~fading
    /\ invisible_idle = invisible_delay

\* C5: after start(d) with d >= 1 and nothing but ticks since, no timeout
\* has been emitted before the d-th tick, exactly one has been emitted at
\* the d-th tick, remaining is then 0, and no tick follows it.
C5_StartThenTicks ==
    (t_pure /\ duration >= 1) =>
        /\ t_ticks <= duration
        /\ t_ticks < duration =>
               (t_expired = 0 /\ running /\ remaining = duration - t_ticks)
        /\ t_ticks = duration =>
               (t_expired = 1 /\ ~running /\ ~timer_active /\ remaining = 0)

C5_Witness ==
    /\ t_pure
    /\ duration >= 2
    /\ t_ticks = duration
    /\ t_expired = 1
    /\ ev.kind = "tick"

\* C6: the remaining time of the countdown is never negative, whatever
\* duration reached start.
C6_RemainingNeverNegative == remaining >= 0

\* C7: every open buffer applies the session's restricted-edit flag.
C7_HemingwayUniform ==
    \A i \in DOMAIN tabs : tabs[i].hemingway = hemingway

\* C8: with no further input a started fade always ends with the trimmed
\* buffer empty, and until then the trimmed buffer is a prefix of the
\* trimmed pre-decay text: characters go from the end, a later word before
\* an earlier one.
C8_FadeErasesAll ==
    /\ [](fading => IsPrefix(RStrip(tabs[current].text), RStrip(fade_pre)))
    /\ (fading ~> (~fading /\ RStrip(tabs[current].text) = <<>>))

C8_Witness ==
    /\ ev.kind = "fade"
    /\ ~fading
    /\ RStrip(tabs[current].text) = <<>>
    /\ RFindSpace(RStrip(fade_pre)) > 0
    /\ fade_erased >= 3

\* C9: a fade belongs to the buffer it started in: a fade tick changes no
\* other buffer, whichever buffer has the focus.
C9_FadeStaysInItsBuffer ==
    [][ev'.kind = "fade" =>
          \A i \in DOMAIN tabs : i # fade_tab => tabs'[i] = tabs[i]]_vars

\* C10: start(duration), issued in Idle, Running or Expired, leaves the
\* timer Running with remaining = duration and last_duration = duration.
C10_StartLeavesRunning ==
    [][ev'.kind \in {"start", "restart"} =>
          /\ ev'.was \in {"Idle", "Running", "Expired"}
          /\ Phase(Timer)' = "Running"
          /\ timer_active'
          /\ remaining' = ev'.arg
          /\ current_duration' = ev'.arg]_vars

C10_Witness ==
    /\ ev.kind = "start"
    /\ ev.was = "Expired"
    /\ running
    /\ remaining = ev.arg
    /\ current_duration = ev.arg

\* C11: stop() (the quick second press of the reset shortcut), in whatever
\* phase, leaves the timer Idle with remaining = 0.
C11_StopLeavesIdleZero ==
    [][ev'.kind = "stop" =>
          (Phase(Timer)' = "Idle" /\ ~timer_active' /\ remaining' = 0)]_vars

\* C12: restart_last() (a slow press of the reset shortcut) in Idle starts
\* a countdown of last_duration when one is recorded, and otherwise changes
\* neither the phase nor remaining.
C12_RestartLastInIdle ==
    [][(ev'.kind \in {"restart", "norestart"} /\ Phase(Timer) = "Idle") =>
          IF current_duration # 0
          THEN /\ ev'.kind = "restart"
               /\ Phase(Timer)' = "Running"
               /\ timer_active'
               /\ remaining' = current_duration
               /\ current_duration' = current_duration
          ELSE /\ ev'.kind = "norestart"
               /\ Phase(Timer)' = "Idle"
               /\ remaining' = remaining]_vars

C12_Witness ==
    /\ ev.kind = "restart"
    /\ ev.was = "Idle"
    /\ running
    /\ remaining = current_duration
    /\ t_ticks = 0

\* C13: the recorded last_duration changes only when start records a new
\* one: not by stop(), not by expiry, not by a restart.
C13_LastDurationKept ==
    [][ev'.kind # "start" => current_duration' = current_duration]_vars

\* C14: at most one timeout is emitted per start, and while the timer is
\* not Running (expired or stopped) no step but a new start changes
\* remaining or emits a timeout.
C14_OneExpiredPerStart ==
    [][/\ t_expired' <= 1
       /\ (Phase(Timer) # "Running" /\ ev'.kind \notin {"start", "restart"}) =>
              (remaining' = remaining /\ t_expired' = t_expired)]_vars

C14_Witness ==
    /\ ev.kind = "wait"
    /\ ev.was = "Expired"
    /\ t_expired = 1
    /\ t_ticks >= 1
    /\ remaining = 0

\* C15: an expired timer always leaves Expired: to Idle when the blink ends
\* (or on stop), or straight to Running with the new duration when a start
\* arrives first; and while the timer is Running no blink step or blink end
\* of an earlier expiry happens.
C15_ExpiredResets ==
    /\ (Phase(Timer) = "Expired") ~> (Phase(Timer) # "Expired")
    /\ [][(Phase(Timer) = "Expired" /\ Phase(Timer)' # "Expired") =>
             \/ ev'.kind \in {"blinkend", "stop"} /\ Phase(Timer)' = "Idle"
             \/ /\ ev'.kind \in {"start", "restart"}
                /\ Phase(Timer)' = "Running"
                /\ remaining' = ev'.arg]_vars
    /\ [][Phase(Timer) = "Running" => ev'.kind \notin {"blink", "blinkend"}]_vars

C15_Witness ==
    /\ ev.kind = "blinkend"
    /\ ev.was = "Expired"
    /\ Phase(Timer) = "Idle"
    /\ t_expired = 1

C17_ForwardOnly ==
    [][(hemingway /\ ev'.kind \in {"allowed", "blocked"}) =>
          /\ Len(tabs'[current].text) >= Len(tabs[current].text)
          /\ tabs'[current].cursor >= tabs[current].cursor]_vars

\* C18: a focus change between buffers leaves the countdown timer alone:
\* phase, remaining and last_duration are unchanged.
C18_FocusLeavesTimer ==
    [][ev'.kind = "focus" =>
          /\ current' # current
          /\ Phase(Timer)' = Phase(Timer)
          /\ UNCHANGED <<running, blinking, timer_active, remaining,
                         duration, current_duration>>]_vars

C18_Witness ==
    /\ ev.kind = "focus"
    /\ running
    /\ timer_active
    /\ remaining >= 1
    /\ remaining < duration

\* C19: a fade starts only at the step where the idle countdown runs out,
\* and only on a buffer that is non-empty once trailing whitespace is
\* trimmed; when the countdown runs out on an empty or whitespace-only
\* buffer no fade starts and the buffers are unchanged.
C19_FadeStartsOnlyOnIdleTimeout ==
    [][/\ (~fading /\ fading') =>
              /\ ev'.kind = "idle"
              /\ invisible_idle = 1
              /\ invisible_idle' = 0
              /\ RStrip(tabs[current].text) # <<>>
       /\ (ev'.kind = "idle" /\ invisible_idle = 1
               /\ RStrip(tabs[current].text) = <<>>) =>
              (~fading' /\ ~fade_timer' /\ tabs' = tabs)]_vars

C19_Witness ==
    /\ ev.kind = "idle"
    /\ invisible_idle = 0
    /\ invisible_enabled
    /\ ~fading
    /\ tabs[current].text # <<>>
    /\ RStrip(tabs[current].text) = <<>>

\* C20: when the fade has emptied the trimmed buffer the engine is Watching
\* again: not fading, the idle countdown armed with its full period.
C20_WatchingAfterFade ==
    (ev.kind = "fade" /\ ~fading /\ RStrip(tabs[current].text) = <<>>) =>
        (~fade_timer /\ invisible_idle = invisible_delay)

\* C21: when the buffers are cleared from outside (self-destruct) during a
\* fade, the engine leaves Fading at once: not fading, no fade tick
\* scheduled, idle countdown disarmed.
C21_ClearEndsFade ==
    [][(ev'.kind = "clear" /\ fading) =>
          (~fading' /\ ~fade_timer' /\ invisible_idle' = 0)]_vars

\* C22: whenever no fade is in progress the recorded within-word index is
\* None.
C22_FadeFieldsNoneWhenIdle ==
    ~fading => fade_letter_index = NoneIdx

\* C23: the fade timer is scheduled exactly while the engine is Fading, so
\* a fade tick is only ever handled during a fade: after an interruption
\* none runs until the idle timeout starts the next fade.
C23_TicksOnlyWhileFading ==
    /\ [](fade_timer <=> fading)
    /\ [][ev'.kind = "fade" => (fading /\ fade_timer)]_vars
    /\ [][(~fading /\ ev'.kind \in {"fade", "idle"}) => tabs' = tabs]_vars

C23_Witness ==
    /\ ev.kind = "mouse"
    /\ ev.cut = "later"
    /\ ~fading
    /\ ~fade_timer
    /\ tabs[current].text # <<>>

\* C24: cancelling is idempotent: a second interruption (_user_typed)
\* leaves the window as the first one left it and an interruption outside a
\* fade leaves the fade state alone; a second stop (TimerWidget.reset)
\* leaves the timer as the first one left it and a stop in Idle changes
\* nothing.
C24_CancelIdempotent ==
    /\ UserTyped(UserTyped(Win)) = UserTyped(Win)
    /\ ~fading =>
           /\ UserTyped(Win).fading = fading
           /\ UserTyped(Win).ftimer = fade_timer
           /\ UserTyped(Win).tabs = tabs
    /\ TimerReset(TimerReset(Timer)) = TimerReset(Timer)
    /\ Phase(Timer) = "Idle" => TimerReset(Timer) = Timer

\* an integer literal: an optional minus sign, then one or more digits
IsInteger(s) ==
    /\ s # <<>>
    /\ LET d == IF s[1] = "-" THEN Tail(s) ELSE s
       IN  d # <<>> /\ \A i \in DOMAIN d : d[i] \in {"0", "1"}

\* a custom duration that is neither an integer nor an integer followed by s
Malformed(text) ==
    /\ ~IsInteger(text)
    /\ ~(text # <<>> /\ text[Len(text)] = "s"
           /\ IsInteger(SubSeq(text, 1, Len(text) - 1)))

\* the malformed texts of the custom field, and those of them that the
\* parsing of _custom lets through
MalformedInputs == {t \in Inputs : Malformed(t)}

MalformedAccepted == {t \in MalformedInputs : CustomSeconds(t).ok}

\* C25: a malformed custom duration is refused: the parsing lets no
\* malformed text through, and the refusal, the step _custom takes on a
\* malformed text, issues no start, leaves the timer's phase, remaining and
\* last_duration as they were, and returns normally.
C25_MalformedRejected ==
    [][/\ MalformedAccepted = {}
       /\ ev'.kind = "rejected" =>
            /\ \E text \in MalformedInputs : Custom(text)
            /\ Phase(Timer)' = Phase(Timer)
            /\ UNCHANGED <<running, blinking, timer_active, remaining,
                           duration, current_duration>>]_vars

C25_Witness ==
    /\ ev.kind = "rejected"
    /\ ev.was = "Running"
    /\ running
    /\ remaining >= 1
    /\ remaining < duration

\* C26: after highlighting, a line that starts with n '#' (1 to 6) followed
\* by a blank carries the level-n heading format on every offset from n on,
\* and on its first n offsets the marker colour with the heading's size and
\* weight; "# Title" is the case n = 1 on the range [0,7) with marker [0,1).
C26_HeadingSpans ==
    LET n == RunOf(hl_text, 0, "#")
    IN  (ev.kind = "highlight" /\ n \in 1..6 /\ At(hl_text, n) = " ") =>
            /\ \A p \in 0..(Len(hl_text) - 1) :
                  /\ hl_fmt[p + 1].size = n
                  /\ hl_fmt[p + 1].bold
                  /\ ~hl_fmt[p + 1].italic
                  /\ hl_fmt[p + 1].color = IF p < n THEN "marker" ELSE "heading"
            /\ hl_text = <<"#", " ", "T", "i", "t", "l", "e">> =>
                  (n = 1 /\ Len(hl_fmt) = 7)

C26_Witness ==
    /\ ev.kind = "highlight"
    /\ hl_text = <<"#", " ", "T", "i", "t", "l", "e">>
    /\ hl_fmt[1] = [heading_format(1) EXCEPT !.color = "marker"]
    /\ \A i \in 2..7 : hl_fmt[i] = heading_format(1)

\* C27: after highlighting "a **b** c" the character b carries the bold
\* format and the four asterisks around it the marker format.
C27_BoldSpans ==
    (ev.kind = "highlight"
        /\ hl_text = <<"a", " ", "*", "*", "b", "*", "*", " ", "c">>) =>
            /\ hl_fmt[5] = bold_format
            /\ \A i \in {3, 4, 6, 7} : hl_fmt[i] = marker_format

\* C28: when a fade picks a word, at its start and after a word is used up,
\* the word start is 0 or follows a space, no space lies after it in the
\* buffer trimmed of trailing whitespace, and the character picked is the
\* last one of the trimmed buffer.
C28_TrailingWordSelected ==
    [][(\/ ev'.kind = "idle" /\ ~fading /\ fading'
        \/ /\ ev'.kind = "fade" /\ fading /\ fading'
           /\ fade_letter_index = 0 /\ fade_alpha' = 0) =>
          LET t == RStrip(tabs'[current'].text)
              ws == fade_word_start'
          IN  /\ ws \in 0..(Len(t) - 1)
              /\ ws = 0 \/ t[ws] = " "
              /\ \A i \in (ws + 1)..Len(t) : t[i] # " "
              /\ ws + fade_letter_index' = Len(t) - 1]_vars

C28_Witness ==
    /\ ev.kind = "fade"
    /\ fading
    /\ fade_pre = <<" ", "a", " ">>
    /\ fade_erased = 0
    /\ fade_word_start = 1
    /\ fade_letter_index = 0
    /\ fade_alpha > 0

C28_WitnessNextWord ==
    /\ ev.kind = "fade"
    /\ fading
    /\ fade_pre = <<"a", " ", "a">>
    /\ fade_erased = 2
    /\ tabs[current].text = <<"a">>
    /\ fade_word_start = 0
    /\ fade_letter_index = 0
    /\ fade_alpha = 0

\* C29: a character is deleted on the 10th fade tick of its cycle and on no
\* other: a tick of a running fade shortens the buffer exactly when 9 ticks
\* of the cycle have gone before it.
C29_TenTicksPerCharacter ==
    [][(ev'.kind = "fade" /\ fading /\ fade_letter_index # NoneIdx) =>
          ((Len(tabs'[current].text) < Len(tabs[current].text))
              <=> fade_alpha = 10 - 1)]_vars

C31_EditRestartsIdle ==
    /\ [][(ev'.kind = "allowed" /\ invisible_enabled /\ ~fading) =>
             (invisible_idle' = invisible_delay /\ ~fading')]_vars
    /\ [][invisible_idle' < invisible_idle =>
             \/ ev'.kind = "idle" /\ invisible_idle' = invisible_idle - 1
             \/ ~invisible_enabled' /\ invisible_idle' = 0]_vars
    /\ [][(~fading /\ fading') =>
             (ev'.kind = "idle" /\ invisible_idle = 1)]_vars

C31_Witness ==
    /\ ev.kind = "allowed"
    /\ ev.cls = "Insert"
    /\ ev.cut = "none"
    /\ invisible_enabled
    /\ ~fading
    /\ invisible_idle = invisible_delay
    /\ Len(tabs[current].text) = 2

\* the positions at which line t holds a run "**x**" around one character
\* that is neither an asterisk nor a blank
BoldRunsAt(t) ==
    {i \in 0..(Len(t) - 5) :
        /\ \A d \in {0, 1, 3, 4} : At(t, i + d) = "*"
        /\ At(t, i + 2) \notin {"*", " "}}

\* C32: on a line that is no heading and no quote and whose only asterisks
\* are those of one run "**x**", highlighting gives no character the italic
\* format and leaves x bold.
C32_ItalicSkipsBoldRun ==
    (/\ ev.kind = "highlight"
     /\ At(hl_text, 0) \notin {"#", ">"}
     /\ BoldRunsAt(hl_text) # {}
     /\ Cardinality({p \in 0..(Len(hl_text) - 1) : At(hl_text, p) = "*"}) = 4) =>
        /\ \A p \in DOMAIN hl_fmt : ~hl_fmt[p].italic
        /\ \A i \in BoldRunsAt(hl_text) : hl_fmt[i + 3] = bold_format

\* the positions at which line t holds a run "*x*" around one character
\* that is neither an asterisk nor a blank, with no asterisk next to the run
ItalicRunsAt(t) ==
    {i \in 0..(Len(t) - 3) :
        /\ At(t, i) = "*" /\ At(t, i + 2) = "*"
        /\ At(t, i + 1) \notin {"*", " "}
        /\ At(t, i - 1) # "*" /\ At(t, i + 3) # "*"}

\* C33: the heading rule comes before the bold and italic rules, whose
\* formats replace it: on a heading line the x of "*x*" ends italic, the x
\* of "**x**" ends bold, and their asterisks carry the marker colour.
C33_HeadingThenEmphasis ==
    (ev.kind = "highlight" /\ HeadingLevel(hl_text) > 0) =>
        /\ \A i \in ItalicRunsAt(hl_text) :
              /\ hl_fmt[i + 2].italic
              /\ hl_fmt[i + 1].color = "marker"
              /\ hl_fmt[i + 3].color = "marker"
        /\ \A i \in BoldRunsAt(hl_text) :
              /\ hl_fmt[i + 3].bold
              /\ \A d \in {1, 2, 4, 5} : hl_fmt[i + d].color = "marker"

\* C34: while decay is enabled and the focused buffer holds text once
\* trailing whitespace is trimmed, the idle countdown is armed or a fade is
\* running, so that a fade starts if no further input arrives.
C34_EngineNeverDead ==
    (invisible_enabled /\ RStrip(tabs[current].text) # <<>>) =>
        (invisible_idle > 0 \/ (fading /\ fade_timer))

\* C35: a fade runs, its timer ticks and the idle countdown is armed only
\* while decay is enabled, so that right after decay is switched off all
\* three are off; and no tick of the fade timer or of the idle countdown,
\* the only steps by which the engine touches a buffer, is taken while
\* decay is disabled.
C35_DecayOffEngineOff ==
    /\ (fading \/ fade_timer \/ invisible_idle > 0) => invisible_enabled
    /\ ev.kind \in {"fade", "idle"} => invisible_enabled

C35_Witness ==
    /\ ev.kind = "mode"
    /\ ~invisible_enabled
    /\ ~fading
    /\ ~fade_timer
    /\ invisible_idle = 0
    /\ Ghost
    /\ fade_alpha > 0
    /\ fade_letter_index # NoneIdx

\* C36: while the countdown timer is Running or Idle its display is drawn
\* at text opacity 1.0.
C36_FullOpacityOutsideBlink ==
    Phase(Timer) \in {"Running", "Idle"} => text_opacity = 10

\* C37: at least one tab is open and the current index designates one of
\* them.
C37_CurrentTabExists == Len(tabs) >= 1 /\ current \in 1..Len(tabs)

C37_Witness ==
    /\ ev.kind \in {"close", "delete"}
    /\ tabs = <<NoteTabInit>>
    /\ current = 1

\* every editor carries the blind style exactly when blind typing is on and
\* blind visibility is off
BlindStyleUniform ==
    \A i \in DOMAIN tabs : tabs[i].blind = (blind_typing /\ ~blind_visible)

\* C38: every open buffer hides its text exactly when blind typing is on
\* and blind visibility is off: every editor carries the blind style exactly
\* then, and in an editor that carries it no character of the text just
\* loaded is drawn in a colour of its own.
C38_BlindHidesText ==
    /\ BlindStyleUniform
    /\ (ev.kind = "open" /\ tabs[current].blind) =>
          \A p \in DOMAIN hl_fmt : hl_fmt[p].color = "default"

\* C39: the self-destruct counter is never negative and its timer runs
\* only while the counter is positive; a start with minutes <= 0 changes
\* nothing; a tick clears every open buffer when it brings the counter to 0
\* and changes no buffer otherwise.
C39_SelfDestructCounter ==
    /\ [](self_destruct_seconds >= 0)
    /\ [](self_destruct_timer <=> self_destruct_seconds > 0)
    /\ [][ev'.kind = "nostart" =>
            UNCHANGED <<tabs, current, destructVars, decayVars, timerVars>>]_vars
    /\ [][ev'.kind \in {"clear", "destruct"} =>
            /\ self_destruct_seconds' = self_destruct_seconds - 1
            /\ IF self_destruct_seconds' = 0
               THEN /\ \A i \in DOMAIN tabs' : tabs'[i].text = <<>>
                    /\ Len(tabs') = Len(tabs)
                    /\ ~self_destruct_timer'
               ELSE UNCHANGED <<tabs, self_destruct_timer>>]_vars

\* the tick that reaches 0 has just cleared several buffers
C39_Witness ==
    /\ ev.kind = "clear"
    /\ self_destruct_seconds = 0
    /\ ~self_destruct_timer
    /\ Len(tabs) >= 2
    /\ \A i \in DOMAIN tabs : tabs[i].text = <<>>

====
